---- MODULE Spec2Model ----
(***************************************************************************)
(* Procure-to-pay client: the request detail / creation views, the API     *)
(* client with its bearer token, and the request lifecycle they drive on   *)
(* the server.                                                             *)
(***************************************************************************)
EXTENDS Integers, Sequences, FiniteSets, TLC

(***************************************************************************)
(* Values                                                                  *)
(***************************************************************************)

\* null / undefined of the client code
NoUser == "<no-user>"
NoLink == "<no-link>"
NoFile == "<no-file>"
NoToken == "<no-token>"
NoComment == "<undefined>"

\* JavaScript truthiness of an optional string: null, undefined and "" are falsy
Truthy(x) == x \notin {NoUser, NoLink, NoFile, NoToken, NoComment, ""}

\* src/frontend/src/types/index.ts: UserRole, RequestStatus
UserRole == {"staff", "approver-level-1", "approver-level-2", "finance"}
RequestStatus == {"pending", "approved", "rejected"}

\* the accounts of the model: two staff members, one approver per level, one
\* finance user
AllUsers == {"s1", "s2", "a1", "a2", "f1"}
RoleOf(u) ==
  CASE u \in {"s1", "s2"} -> "staff"
    [] u = "a1" -> "approver-level-1"
    [] u = "a2" -> "approver-level-2"
    [] u = "f1" -> "finance"

\* the characters of a role string, for String.prototype.includes
Chars(s) ==
  CASE s = "staff" -> <<"s", "t", "a", "f", "f">>
    [] s = "finance" -> <<"f", "i", "n", "a", "n", "c", "e">>
    [] s = "approver" -> <<"a", "p", "p", "r", "o", "v", "e", "r">>
    [] s = "approver-level-1" ->
         <<"a", "p", "p", "r", "o", "v", "e", "r", "-", "l", "e", "v", "e", "l", "-", "1">>
    [] s = "approver-level-2" ->
         <<"a", "p", "p", "r", "o", "v", "e", "r", "-", "l", "e", "v", "e", "l", "-", "2">>

\* hay.includes(needle)
Includes(hay, needle) ==
  \E i \in 1..(Len(Chars(hay)) + 1) :
    /\ i + Len(Chars(needle)) - 1 <= Len(Chars(hay))
    /\ SubSeq(Chars(hay), i, i + Len(Chars(needle)) - 1) = Chars(needle)

\* the view holds no request (useState<PurchaseRequest | null>(null))
NoRequest == [id |-> 0, status |-> "<none>", created_by |-> NoUser,
              title |-> "", description |-> "", amount |-> 0,
              receipt |-> NoLink, approvals |-> <<>>]

(***************************************************************************)
(* Role-gated controls of the request detail view                          *)
(***************************************************************************)

canApprove_AnyStatus(user, request) ==
  /\ user # NoUser
  /\ Includes(RoleOf(user), "approver")

canApprove_AnyRole(user, request) ==
  /\ user # NoUser
  /\ request.status = "pending"

\* RequestDetail.tsx:158
canApprove(user, request) ==
  /\ user # NoUser
  /\ Includes(RoleOf(user), "approver")
  /\ request.status = "pending"

canSubmitReceipt_AnyReceipt(user, request) ==
  /\ user # NoUser
  /\ RoleOf(user) = "staff"
  /\ request.created_by = user
  /\ request.status = "approved"

\* RequestDetail.tsx:159-163
canSubmitReceipt(user, request) ==
  /\ user # NoUser
  /\ RoleOf(user) = "staff"
  /\ request.created_by = user
  /\ request.status = "approved"
  /\ ~Truthy(request.receipt)

RenderDetail_NoNotFound(user, request, loading) ==
  IF loading THEN {"skeleton"}
  ELSE {"detail"}
       \cup (IF canApprove(user, request) THEN {"approve", "reject"} ELSE {})
       \cup (IF canSubmitReceipt(user, request) THEN {"submit-receipt"} ELSE {})

\* what RequestDetail renders (lines 123-156 and 268-269)
RenderDetail(user, request, loading) ==
  IF loading THEN {"skeleton"}
  ELSE IF request = NoRequest THEN {"not-found"}
  ELSE {"detail"}
       \cup (IF canApprove(user, request) THEN {"approve", "reject"} ELSE {})
       \cup (IF canSubmitReceipt(user, request) THEN {"submit-receipt"} ELSE {})

(***************************************************************************)
(* Navigation: the links Layout, RequestsList and Dashboard render         *)
(***************************************************************************)

navItems_NewRequestForAll ==
  { [label |-> "Dashboard", to |-> "/dashboard", roles |-> UserRole],
    [label |-> "Requests", to |-> "/requests", roles |-> UserRole],
    [label |-> "New Request", to |-> "/requests/new", roles |-> UserRole] }

\* Layout.tsx:54-73
navItems ==
  { [label |-> "Dashboard", to |-> "/dashboard", roles |-> UserRole],
    [label |-> "Requests", to |-> "/requests", roles |-> UserRole],
    [label |-> "New Request", to |-> "/requests/new", roles |-> {"staff"}] }

\* Layout.tsx:99-100: navItems.filter((item) => user && item.roles.includes(user.role))
VisibleNav(user) ==
  {item \in navItems : user # NoUser /\ RoleOf(user) \in item.roles}

\* RequestsList.tsx:83 and Dashboard.tsx:111: user?.role === "staff" && <Link to="/requests/new">
NewRequestButton(user) == user # NoUser /\ RoleOf(user) = "staff"

(***************************************************************************)
(* The views: one per browser tab                                          *)
(***************************************************************************)

Views == {"v1", "v2"}

\* NewRequest.tsx:23-27: the form fields when the form mounts
EmptyForm == [title |-> "", description |-> "", amount |-> ""]

\* what the user can type or pick; the amount input is of type number, its
\* value is "" unless the text typed is a number
Titles == {"", "T"}
Descriptions == {"", "D"}
Amounts == {"", "100.00", "-5"}
Comments == {"", "ok"}
ReceiptFiles == {"receipt-1.pdf", "receipt-2.pdf"}
ProformaFile == "proforma.pdf"

\* the requests list / dashboard page: no detail or form state is mounted
MountRequests(user) ==
  [user |-> user, page |-> "requests", id |-> 0, request |-> NoRequest,
   loading |-> FALSE, actionLoading |-> FALSE, comment |-> "",
   receipt |-> NoFile, formData |-> EmptyForm, proforma |-> NoFile,
   formLoading |-> FALSE]

\* RequestDetail.tsx:37-45: the state of a freshly mounted detail page
MountDetail(user, id) ==
  [user |-> user, page |-> "detail", id |-> id, request |-> NoRequest,
   loading |-> TRUE, actionLoading |-> FALSE, comment |-> "",
   receipt |-> NoFile, formData |-> EmptyForm, proforma |-> NoFile,
   formLoading |-> FALSE]

\* NewRequest.tsx:20-28: the state of a freshly mounted creation form
MountNew(user) ==
  [user |-> user, page |-> "new", id |-> 0, request |-> NoRequest,
   loading |-> FALSE, actionLoading |-> FALSE, comment |-> "",
   receipt |-> NoFile, formData |-> EmptyForm, proforma |-> NoFile,
   formLoading |-> FALSE]

(***************************************************************************)
(* State                                                                   *)
(***************************************************************************)

VARIABLES
  probe,        \* role gating: the (user, request, loading) a detail view holds
  rendered,     \* role gating: the controls the view rendered for the probe
  token,        \* localStorage["auth_token"]
  wire,         \* API client: the HTTP requests in flight
  granted,      \* the token returned by the latest successful login, until logout
  grants,       \* every token a successful login returned since the last logout
  loginOutcome, \* how the latest finished login call ended
  store,        \* server: the purchase requests, in creation order (id = position)
  views,        \* per browser tab: the logged-in user and the mounted page's state
  calls,        \* the views' API calls in flight, each with the handler awaiting it
  seen,         \* per tab: the requests it has shown with a receipt attached
  toast,        \* per tab whose notifications are followed: the latest toast()
  listView,     \* the mounted RequestsList or Dashboard page and its state
  listCall,     \* the page's requestsAPI.list() call
  response,     \* an HTTP response apiRequest receives: status and body
  outcome       \* how apiRequest settles for that response

gateVars == <<probe, rendered>>
authVars == <<token, wire, granted, grants, loginOutcome>>
mainVars == <<store, views, calls, seen, toast>>
listVars == <<listView, listCall>>
replyVars == <<response, outcome>>
vars == <<probe, rendered, token, wire, granted, grants, loginOutcome,
          store, views, calls, seen, toast, listView, listCall,
          response, outcome>>

GateIdle ==
  /\ probe = [user |-> NoUser, request |-> NoRequest, loading |-> TRUE]
  /\ rendered = {"unmounted"}

MainIdle ==
  /\ store = <<>>
  /\ views = [v \in Views |-> MountRequests(NoUser)]
  /\ calls = {}
  /\ seen = [v \in Views |-> {}]
  /\ toast = <<>>

ListIdle ==
  /\ listView = [page |-> "none", loading |-> FALSE]
  /\ listCall = [phase |-> "none"]

ReplyIdle ==
  /\ response = [status |-> 0, json |-> "none", message |-> ""]
  /\ outcome = [kind |-> "none", message |-> ""]

AuthIdle ==
  /\ token = NoToken
  /\ wire = {}
  /\ granted = NoToken
  /\ grants = {}
  /\ loginOutcome = "none"

(***************************************************************************)
(* SpecGate: the detail view rendered for every user and held request      *)
(***************************************************************************)

GateRequests ==
  [id : {1}, status : RequestStatus, created_by : {"s1", "s2"},
   title : {"T"}, description : {"D"}, amount : {10000},
   receipt : {NoLink, "", "r.pdf"}, approvals : {<<>>}]

InitGate ==
  /\ probe \in [user : AllUsers \cup {NoUser},
                request : GateRequests \cup {NoRequest},
                loading : BOOLEAN]
  /\ rendered = {"unmounted"}
  /\ AuthIdle
  /\ MainIdle
  /\ ListIdle
  /\ ReplyIdle

Render ==
  /\ rendered = {"unmounted"}
  /\ rendered' = RenderDetail(probe.user, probe.request, probe.loading)
  /\ UNCHANGED <<probe, authVars, mainVars, listVars, replyVars>>

NextGate == Render

SpecGate == InitGate /\ [][NextGate]_vars

\* C1: Approve/Reject are exposed only to a user whose role is one of the two
\* approver roles and only for a held request whose status is pending; never
\* for a rejected or approved request, never without a logged-in user.
C1_ApproveOnlyApproverPending ==
  ("approve" \in rendered \/ "reject" \in rendered) =>
    /\ probe.user \in {"a1", "a2"}
    /\ probe.request.status = "pending"
    /\ ~probe.loading

C1_Witness ==
  /\ {"approve", "reject"} \subseteq rendered
  /\ probe.user = "a2"

\* C2: the receipt-submission control is exposed only to a staff user who
\* created the held request, when its status is approved and it has no receipt
\* link; an approved request with a non-empty receipt link never exposes it.
C2_ReceiptOnlyCreatorApprovedNoReceipt ==
  /\ "submit-receipt" \in rendered =>
       /\ probe.user \in {"s1", "s2"}
       /\ probe.request.created_by = probe.user
       /\ probe.request.status = "approved"
       /\ probe.request.receipt \in {NoLink, ""}
  /\ (rendered # {"unmounted"} /\ probe.request.status = "approved"
        /\ probe.request.receipt = "r.pdf") => "submit-receipt" \notin rendered

C2_Witness ==
  /\ "submit-receipt" \in rendered
  /\ probe.user = "s2"
  /\ probe.request.receipt = NoLink

(***************************************************************************)
(* API client (lib/api): token storage, apiRequest, the endpoint bindings  *)
(***************************************************************************)

\* the most HTTP requests the client model keeps in flight at once
MaxInFlight == 2

\* tokens the server hands out
Tokens == {"t1", "t2"}

\* an API client step leaves the views alone
AuthFrame == UNCHANGED <<gateVars, mainVars, listVars, replyVars>>

\* no such header on the request
NoHeader == <<>>

\* getAuthToken: localStorage.getItem("auth_token")
getAuthToken == token

\* setAuthToken(t): localStorage.setItem("auth_token", t)
setAuthToken(t) == token' = t

\* removeAuthToken: localStorage.removeItem("auth_token")
removeAuthToken == token' = NoToken

apiRequest_IgnoresAuthOption(op, method, body, auth) ==
  [op |-> op, method |-> method, body |-> body,
   authorization |-> IF Truthy(getAuthToken)
                     THEN <<"Bearer", getAuthToken>> ELSE NoHeader,
   contentType |-> IF body # "FormData" THEN "application/json" ELSE "<none>",
   stored |-> token, session |-> granted, grants |-> grants]

apiRequest_AlwaysJson(op, method, body, auth) ==
  [op |-> op, method |-> method, body |-> body,
   authorization |-> IF auth /\ Truthy(getAuthToken)
                     THEN <<"Bearer", getAuthToken>> ELSE NoHeader,
   contentType |-> "application/json",
   stored |-> token, session |-> granted, grants |-> grants]

\* apiRequest, up to the fetch: the HTTP request it puts on the wire.  stored,
\* session and grants are not sent: they record the storage and the login
\* session the call was made in.
apiRequest(op, method, body, auth) ==
  [op |-> op, method |-> method, body |-> body,
   authorization |-> IF auth /\ Truthy(getAuthToken)
                     THEN <<"Bearer", getAuthToken>> ELSE NoHeader,
   contentType |-> IF body # "FormData" THEN "application/json" ELSE "<none>",
   stored |-> token, session |-> granted, grants |-> grants]

\* authAPI and requestsAPI: the options each binding passes to apiRequest
ApiOps == {"login", "getCurrentUser", "list", "get", "create", "update",
           "approve", "reject", "submitReceipt"}

Binding(op) ==
  CASE op = "login" -> apiRequest(op, "POST", "JSON", FALSE)
    [] op = "getCurrentUser" -> apiRequest(op, "GET", "<none>", TRUE)
    [] op = "list" -> apiRequest(op, "GET", "<none>", TRUE)
    [] op = "get" -> apiRequest(op, "GET", "<none>", TRUE)
    [] op = "create" -> apiRequest(op, "POST", "FormData", TRUE)
    [] op = "update" -> apiRequest(op, "PUT", "JSON", TRUE)
    [] op = "approve" -> apiRequest(op, "PATCH", "JSON", TRUE)
    [] op = "reject" -> apiRequest(op, "PATCH", "JSON", TRUE)
    [] op = "submitReceipt" -> apiRequest(op, "POST", "FormData", TRUE)

\* a binding is called: its request goes on the wire
CallApi(op) ==
  /\ Cardinality(wire) < MaxInFlight
  /\ Binding(op) \notin wire
  /\ wire' = wire \cup {Binding(op)}
  /\ UNCHANGED <<token, granted, grants, loginOutcome>>
  /\ AuthFrame

\* any call but login ends (2xx, non-2xx or transport failure): apiRequest
\* returns the JSON or throws, and touches nothing else
ApiCallEnds(c) ==
  /\ c \in wire
  /\ c.op # "login"
  /\ wire' = wire \ {c}
  /\ UNCHANGED <<token, granted, grants, loginOutcome>>
  /\ AuthFrame

login_NeverStores(c, dataToken) ==
  /\ c \in wire
  /\ c.op = "login"
  /\ wire' = wire \ {c}
  /\ UNCHANGED token
  /\ granted' = IF dataToken \in Tokens THEN dataToken ELSE granted
  /\ grants' = IF dataToken \in Tokens THEN grants \cup {dataToken} ELSE grants
  /\ loginOutcome' = "returned"
  /\ AuthFrame

\* authAPI.login after a 2xx response whose JSON carries dataToken (absent,
\* empty or a token): if (data.token) setAuthToken(data.token); return data
login_Ok(c, dataToken) ==
  /\ c \in wire
  /\ c.op = "login"
  /\ wire' = wire \ {c}
  /\ IF Truthy(dataToken) THEN setAuthToken(dataToken) ELSE UNCHANGED token
  /\ granted' = IF dataToken \in Tokens THEN dataToken ELSE granted
  /\ grants' = IF dataToken \in Tokens THEN grants \cup {dataToken} ELSE grants
  /\ loginOutcome' = "returned"
  /\ AuthFrame

\* authAPI.login after a non-2xx response or a transport failure: apiRequest
\* throws and login lets the error through
login_Fail(c) ==
  /\ c \in wire
  /\ c.op = "login"
  /\ wire' = wire \ {c}
  /\ loginOutcome' = "raised"
  /\ UNCHANGED <<token, granted, grants>>
  /\ AuthFrame

logout_KeepsToken ==
  /\ UNCHANGED token
  /\ granted' = NoToken
  /\ grants' = {}
  /\ UNCHANGED <<wire, loginOutcome>>
  /\ AuthFrame

\* authAPI.logout
logout ==
  /\ removeAuthToken
  /\ granted' = NoToken
  /\ grants' = {}
  /\ UNCHANGED <<wire, loginOutcome>>
  /\ AuthFrame

InitAuth ==
  /\ AuthIdle
  /\ GateIdle
  /\ MainIdle
  /\ ListIdle
  /\ ReplyIdle

NextAuth ==
  \/ \E op \in ApiOps : CallApi(op)
  \/ \E c \in wire : ApiCallEnds(c)
  \/ \E c \in wire, t \in Tokens \cup {NoToken, ""} : login_Ok(c, t)
  \/ \E c \in wire : login_Fail(c)
  \/ logout

SpecAuth == InitAuth /\ [][NextAuth]_vars

\* C8 (as claimed): every authenticated call made after a login returned a
\* token, and before the next logout, carries Authorization: Bearer <that token>.
C8_EveryLoginTokenCarried ==
  \A c \in wire :
    c.op # "login" => \A t \in c.grants : c.authorization = <<"Bearer", t>>

\* C8 (amended): once a login has returned a token, the token of the latest
\* such login is the stored one, and every authenticated call made until the
\* next logout is sent with Authorization: Bearer <the latest login's token>.
C8_LoginTokenCarried ==
  /\ granted # NoToken => token = granted
  /\ \A c \in wire :
       (c.op # "login" /\ c.session # NoToken) =>
         c.authorization = <<"Bearer", c.session>>

C8_Witness ==
  /\ granted = "t2"
  /\ \E c \in wire : c.op = "approve" /\ c.authorization = <<"Bearer", "t2">>

\* C9 (as claimed): after a failed login attempt, from any prior client state,
\* no token is stored.
C9_NoTokenAfterFailedLogin ==
  loginOutcome = "raised" => token = NoToken

\* C10: every call but login made while a token is stored carries that token as
\* its bearer token, and a login call carries no Authorization header at all.
C10_TokenAttachedUnlessLogin ==
  \A c \in wire :
    /\ (c.op # "login" /\ c.stored # NoToken) =>
         c.authorization = <<"Bearer", c.stored>>
    /\ c.op = "login" => c.authorization = NoHeader

C10_Witness ==
  /\ \E c \in wire : c.op = "login" /\ c.stored = "t1" /\ c.authorization = NoHeader
  /\ \E c \in wire : c.op = "submitReceipt" /\ c.authorization = <<"Bearer", "t1">>

(***************************************************************************)
(* The server: the request lifecycle behind the REST endpoints             *)
(***************************************************************************)

\* the most purchase requests the server model holds
MaxRequests == 1

\* the toasts of a tab are followed when the tab is in the domain of toast
Followed(v) == v \in DOMAIN toast

NoToast == [title |-> "", variant |-> "default"]

\* toast({ title, variant }) in tab v
Notify(v, title, variant) ==
  toast' = IF Followed(v)
           THEN [toast EXCEPT ![v] = [title |-> title, variant |-> variant]]
           ELSE toast

\* an API call in flight: the request is on its way ("sent") or the server has
\* answered and the response is on its way back ("replied").  live says whether
\* the component instance whose handler awaits it is still mounted.
Call(v, thread, op, id, comment, file) ==
  [view |-> v, live |-> TRUE, thread |-> thread, op |-> op, action |-> op,
   id |-> id, user |-> views[v].user, comment |-> comment, file |-> file,
   form |-> IF op = "create" THEN views[v].formData ELSE EmptyForm,
   phase |-> "sent", ok |-> FALSE, data |-> NoRequest]

\* what an unmounted handler can still do once the server has answered:
\* handleSubmit's navigate(), and its toasts; every other continuation just
\* sets the state of a component that is gone (or re-fetches for it), so
\* where the toasts are not followed its call is dropped
StillActs(c, ok) == c.live \/ (c.op = "create" /\ ok) \/ Followed(c.view)

Reply(c, ok, data) ==
  calls' = (calls \ {c}) \cup
             (IF StillActs(c, ok)
              THEN {[c EXCEPT !.phase = "replied", !.ok = ok, !.data = data]}
              ELSE {})

ApproverLevel(u) == IF RoleOf(u) = "approver-level-1" THEN 1 ELSE 2

Decided(op) == IF op = "approve" THEN "approved" ELSE "rejected"

Decide_LevelOne(request, user, op, comment) ==
  [request EXCEPT
     !.status = Decided(op),
     !.approvals = Append(@, [approver_id |-> user,
                              approver_level |-> 1,
                              status |-> Decided(op),
                              comment |-> comment])]

\* a request after user decided it: the status, and one more Approval record
Decide(request, user, op, comment) ==
  [request EXCEPT
     !.status = Decided(op),
     !.approvals = Append(@, [approver_id |-> user,
                              approver_level |-> ApproverLevel(user),
                              status |-> Decided(op),
                              comment |-> comment])]

\* the amount a decimal string denotes, in hundredths
ParseAmount(str) ==
  CASE str = "100.00" -> 10000
    [] str = "-5" -> 0 - 500
    [] OTHER -> 0

\* the form of the request the server holds from the start
SeedForm == [title |-> "T", description |-> "D", amount |-> "100.00"]

\* a request as the server creates it from the fields of the form
NewRequest(id, user, form) ==
  [id |-> id, status |-> "pending", created_by |-> user,
   title |-> form.title, description |-> form.description,
   amount |-> ParseAmount(form.amount),
   receipt |-> NoLink, approvals |-> <<>>]

\* GET /requests/{id}/
ServerGet(c) ==
  /\ c \in calls /\ c.phase = "sent" /\ c.op = "get"
  /\ IF c.user # NoUser /\ c.id \in 1..Len(store)
     THEN Reply(c, TRUE, store[c.id])
     ELSE Reply(c, FALSE, NoRequest)
  /\ UNCHANGED <<store, views, seen, toast>>

DecideGuard_AnyStatus(c) ==
  /\ c.user # NoUser
  /\ RoleOf(c.user) \in {"approver-level-1", "approver-level-2"}
  /\ c.id \in 1..Len(store)

\* the guard of approve and reject: an approver, and request.status == pending
DecideGuard(c) ==
  /\ c.user # NoUser
  /\ RoleOf(c.user) \in {"approver-level-1", "approver-level-2"}
  /\ c.id \in 1..Len(store)
  /\ store[c.id].status = "pending"

\* PATCH /requests/{id}/approve/ and /reject/: the status changes and one
\* Approval record with the approver's level and comment is appended
ServerDecide(c) ==
  /\ c \in calls /\ c.phase = "sent" /\ c.op \in {"approve", "reject"}
  /\ IF DecideGuard(c)
     THEN LET new == Decide(store[c.id], c.user, c.op, c.comment)
          IN /\ store' = [store EXCEPT ![c.id] = new]
             /\ Reply(c, TRUE, new)
     ELSE /\ Reply(c, FALSE, NoRequest)
          /\ UNCHANGED store
  /\ UNCHANGED <<views, seen, toast>>

ReceiptGuard_AnyReceipt(c) ==
  /\ c.user # NoUser
  /\ RoleOf(c.user) = "staff"
  /\ c.id \in 1..Len(store)
  /\ store[c.id].created_by = c.user
  /\ store[c.id].status = "approved"
  /\ c.file # NoFile

\* the guard of submit-receipt: the staff creator, an approved request, and no
\* receipt already present
ReceiptGuard(c) ==
  /\ c.user # NoUser
  /\ RoleOf(c.user) = "staff"
  /\ c.id \in 1..Len(store)
  /\ store[c.id].created_by = c.user
  /\ store[c.id].status = "approved"
  /\ store[c.id].receipt = NoLink
  /\ c.file # NoFile

\* POST /requests/{id}/submit-receipt/: the receipt link is attached
ServerSubmitReceipt(c) ==
  /\ c \in calls /\ c.phase = "sent" /\ c.op = "submitReceipt"
  /\ IF ReceiptGuard(c)
     THEN LET new == [store[c.id] EXCEPT !.receipt = c.file]
          IN /\ store' = [store EXCEPT ![c.id] = new]
             /\ Reply(c, TRUE, new)
     ELSE /\ Reply(c, FALSE, NoRequest)
          /\ UNCHANGED store
  /\ UNCHANGED <<views, seen, toast>>

\* POST /requests/: staff only, proforma document required
ServerCreate(c) ==
  /\ c \in calls /\ c.phase = "sent" /\ c.op = "create"
  /\ IF c.user # NoUser /\ RoleOf(c.user) = "staff" /\ c.file # NoFile
     THEN LET new == NewRequest(Len(store) + 1, c.user, c.form)
          IN /\ store' = Append(store, new)
             /\ Reply(c, TRUE, new)
     ELSE /\ Reply(c, FALSE, NoRequest)
          /\ UNCHANGED store
  /\ UNCHANGED <<views, seen, toast>>

(***************************************************************************)
(* Navigation between the pages of a tab                                   *)
(***************************************************************************)

\* the mounted page of tab v goes away: its handlers keep running, but their
\* state updates no longer reach a mounted component.  Kept of them is what can
\* still have an effect: a mutating request the server has not handled yet,
\* and a create whose response will navigate the tab.
Unmount(v, cs) ==
  {c \in cs : c.view # v} \cup
  {[c EXCEPT !.live = FALSE] :
     c \in {d \in cs : /\ d.view = v
                        /\ \/ Followed(v)
                           \/ d.op # "get" /\ d.phase = "sent"
                           \/ d.op = "create" /\ d.phase = "replied" /\ d.ok}}

\* the most calls of unmounted handlers the model keeps in flight
MaxOrphans == 1

Orphans(cs) == {c \in cs : ~c.live}

\* the page of tab v may be left: the calls it leaves behind fit the model
MayLeave(v) == Cardinality(Orphans(Unmount(v, calls))) <= MaxOrphans

\* the controls the mounted page of tab v renders
Rendered(v) ==
  IF views[v].page = "detail"
  THEN RenderDetail(views[v].user, views[v].request, views[v].loading)
  ELSE {}

\* to the requests list or the dashboard: the Layout's "Requests" or
\* "Dashboard" item on any page, or the detail page's "Back to all requests".
\* (Cancel and "Go Back" step back in the history, to a page these actions
\* mount as well.)
GoRequests(v) ==
  /\ views[v].page # "requests"
  /\ \/ \E item \in VisibleNav(views[v].user) : item.to \in {"/requests", "/dashboard"}
     \/ "detail" \in Rendered(v)
  /\ MayLeave(v)
  /\ views' = [views EXCEPT ![v] = MountRequests(views[v].user)]
  /\ calls' = Unmount(v, calls)
  /\ UNCHANGED <<store, seen, toast>>

\* RequestDetail.tsx:47-67, up to the await: the effect of mounting the page
fetchRequest(v, id) == Call(v, "fetch", "get", id, NoComment, NoFile)

\* a row of the requests list (or of the dashboard's recent requests) is clicked
OpenDetail(v, id) ==
  /\ views[v].page = "requests"
  /\ views[v].user # NoUser
  /\ id \in 1..Len(store)
  /\ views' = [views EXCEPT ![v] = MountDetail(views[v].user, id)]
  /\ calls' = Unmount(v, calls) \cup {fetchRequest(v, id)}
  /\ UNCHANGED <<store, seen, toast>>

\* "New Request" is clicked: the Layout's item on any page, or the button of
\* the requests list / dashboard
OpenNew(v) ==
  /\ views[v].page # "new"
  /\ \/ \E item \in VisibleNav(views[v].user) : item.to = "/requests/new"
     \/ views[v].page = "requests" /\ NewRequestButton(views[v].user)
  /\ MayLeave(v)
  /\ views' = [views EXCEPT ![v] = MountNew(views[v].user)]
  /\ calls' = Unmount(v, calls)
  /\ UNCHANGED <<store, seen, toast>>

(***************************************************************************)
(* RequestDetail: fetchRequest, handleAction, handleSubmitReceipt          *)
(***************************************************************************)

\* setRequest(data) in tab c.view, with the fields the handler sets after it
Show(c, data) ==
  /\ views' = [views EXCEPT ![c.view] = data]
  /\ seen' = IF Truthy(data.request.receipt)
             THEN [seen EXCEPT ![c.view] = @ \cup {data.request.id}]
             ELSE seen

\* fetchRequest after requestsAPI.get resolves: setRequest(data), then
\* setLoading(false)
FetchRequestOk(c) ==
  /\ c \in calls /\ c.thread = "fetch" /\ c.phase = "replied" /\ c.ok
  /\ calls' = calls \ {c}
  /\ IF c.live
     THEN Show(c, [views[c.view] EXCEPT !.request = c.data, !.loading = FALSE])
     ELSE UNCHANGED <<views, seen>>
  /\ UNCHANGED <<store, toast>>

FetchRequestFail_NoFinally(c) ==
  /\ c \in calls /\ c.thread = "fetch"
  /\ calls' = calls \ {c}
  /\ Notify(c.view, "Error", "destructive")
  /\ UNCHANGED <<store, views, seen>>

\* fetchRequest after requestsAPI.get rejects (non-2xx, or the transport fails
\* before or after the server answered): the toast, then setLoading(false)
FetchRequestFail(c) ==
  /\ c \in calls /\ c.thread = "fetch"
  /\ calls' = calls \ {c}
  /\ views' = IF c.live THEN [views EXCEPT ![c.view].loading = FALSE] ELSE views
  /\ Notify(c.view, "Error", "destructive")
  /\ UNCHANGED <<store, seen>>

\* the comment field is edited (the ActionCard's Textarea)
SetComment(v, text) ==
  /\ "approve" \in Rendered(v)
  /\ text # views[v].comment
  /\ views' = [views EXCEPT ![v].comment = text]
  /\ UNCHANGED <<store, calls, seen, toast>>

handleAction_NoLoadingFlag(v, action) ==
  /\ action \in Rendered(v)
  /\ ~views[v].actionLoading
  /\ calls' = calls \cup
       {Call(v, "action", action, views[v].id,
             IF Truthy(views[v].comment) THEN views[v].comment ELSE NoComment,
             NoFile)}
  /\ UNCHANGED <<store, views, seen, toast>>

\* Approve or Reject is clicked (the buttons are disabled while actionLoading):
\* handleAction up to its first await
handleAction(v, action) ==
  /\ action \in Rendered(v)
  /\ ~views[v].actionLoading
  /\ views' = [views EXCEPT ![v].actionLoading = TRUE]
  /\ calls' = calls \cup
       {Call(v, "action", action, views[v].id,
             IF Truthy(views[v].comment) THEN views[v].comment ELSE NoComment,
             NoFile)}
  /\ UNCHANGED <<store, seen, toast>>

HandleActionMutated_PatchesCopy(c) ==
  /\ c \in calls /\ c.thread = "action" /\ c.op \in {"approve", "reject"}
  /\ c.phase = "replied" /\ c.ok
  /\ Notify(c.view, "Request " \o c.action \o "d", "default")
  /\ calls' = calls \ {c}
  /\ views' = IF c.live
              THEN [views EXCEPT
                      ![c.view].request.status =
                         IF c.action = "approve" THEN "approved" ELSE "rejected",
                      ![c.view].comment = "",
                      ![c.view].actionLoading = FALSE]
              ELSE views
  /\ UNCHANGED <<store, seen>>

\* handleAction after approve/reject resolves: the toast, then the re-fetch
HandleActionMutated(c) ==
  /\ c \in calls /\ c.thread = "action" /\ c.op \in {"approve", "reject"}
  /\ c.phase = "replied" /\ c.ok
  /\ Notify(c.view, "Request " \o c.action \o "d", "default")
  /\ calls' = (calls \ {c}) \cup
       {[c EXCEPT !.op = "get", !.phase = "sent", !.ok = FALSE, !.data = NoRequest]}
  /\ UNCHANGED <<store, views, seen>>

HandleActionRefetched_KeepsCopy(c) ==
  /\ c \in calls /\ c.thread = "action" /\ c.op = "get"
  /\ c.phase = "replied" /\ c.ok
  /\ calls' = calls \ {c}
  /\ views' = IF c.live
              THEN [views EXCEPT ![c.view].comment = "",
                                 ![c.view].actionLoading = FALSE]
              ELSE views
  /\ UNCHANGED <<store, seen, toast>>

\* handleAction after the re-fetch resolves: setRequest(data), setComment(""),
\* then setActionLoading(false)
HandleActionRefetched(c) ==
  /\ c \in calls /\ c.thread = "action" /\ c.op = "get"
  /\ c.phase = "replied" /\ c.ok
  /\ calls' = calls \ {c}
  /\ IF c.live
     THEN Show(c, [views[c.view] EXCEPT !.request = c.data, !.comment = "",
                                        !.actionLoading = FALSE])
     ELSE UNCHANGED <<views, seen>>
  /\ UNCHANGED <<store, toast>>

HandleActionFail_Retries(c) ==
  /\ c \in calls /\ c.thread = "action"
  /\ calls' = (calls \ {c}) \cup
       {[c EXCEPT !.op = c.action, !.phase = "sent", !.ok = FALSE, !.data = NoRequest]}
  /\ Notify(c.view, "Failed to " \o c.action \o " request", "destructive")
  /\ UNCHANGED <<store, views, seen>>

HandleActionFail_ClearsComment(c) ==
  /\ c \in calls /\ c.thread = "action"
  /\ calls' = calls \ {c}
  /\ views' = IF c.live
              THEN [views EXCEPT ![c.view].actionLoading = FALSE,
                                 ![c.view].comment = ""]
              ELSE views
  /\ Notify(c.view, "Failed to " \o c.action \o " request", "destructive")
  /\ UNCHANGED <<store, seen>>

\* handleAction when approve/reject or the re-fetch rejects: the failure toast,
\* then setActionLoading(false)
HandleActionFail(c) ==
  /\ c \in calls /\ c.thread = "action"
  /\ calls' = calls \ {c}
  /\ views' = IF c.live THEN [views EXCEPT ![c.view].actionLoading = FALSE] ELSE views
  /\ Notify(c.view, "Failed to " \o c.action \o " request", "destructive")
  /\ UNCHANGED <<store, seen>>

\* a receipt file is picked or cleared (the SubmitReceiptCard's file input)
SetReceipt(v, file) ==
  /\ "submit-receipt" \in Rendered(v)
  /\ file # views[v].receipt
  /\ views' = [views EXCEPT ![v].receipt = file]
  /\ UNCHANGED <<store, calls, seen, toast>>

\* Submit Receipt is clicked (disabled without a file and while actionLoading):
\* handleSubmitReceipt up to its first await
handleSubmitReceipt(v) ==
  /\ "submit-receipt" \in Rendered(v)
  /\ views[v].receipt # NoFile
  /\ ~views[v].actionLoading
  /\ views' = [views EXCEPT ![v].actionLoading = TRUE]
  /\ calls' = calls \cup
       {Call(v, "receipt", "submitReceipt", views[v].id, NoComment, views[v].receipt)}
  /\ UNCHANGED <<store, seen, toast>>

\* handleSubmitReceipt after submitReceipt resolves: the toast, then the re-fetch
HandleReceiptSubmitted(c) ==
  /\ c \in calls /\ c.thread = "receipt" /\ c.op = "submitReceipt"
  /\ c.phase = "replied" /\ c.ok
  /\ Notify(c.view, "Receipt submitted", "default")
  /\ calls' = (calls \ {c}) \cup
       {[c EXCEPT !.op = "get", !.phase = "sent", !.ok = FALSE, !.data = NoRequest]}
  /\ UNCHANGED <<store, views, seen>>

\* handleSubmitReceipt after the re-fetch resolves: setRequest(data),
\* setReceipt(null), then setActionLoading(false)
HandleReceiptRefetched(c) ==
  /\ c \in calls /\ c.thread = "receipt" /\ c.op = "get"
  /\ c.phase = "replied" /\ c.ok
  /\ calls' = calls \ {c}
  /\ IF c.live
     THEN Show(c, [views[c.view] EXCEPT !.request = c.data, !.receipt = NoFile,
                                        !.actionLoading = FALSE])
     ELSE UNCHANGED <<views, seen>>
  /\ UNCHANGED <<store, toast>>

\* handleSubmitReceipt when submitReceipt or the re-fetch rejects
HandleReceiptFail(c) ==
  /\ c \in calls /\ c.thread = "receipt"
  /\ calls' = calls \ {c}
  /\ views' = IF c.live THEN [views EXCEPT ![c.view].actionLoading = FALSE] ELSE views
  /\ Notify(c.view, "Failed to submit receipt", "destructive")
  /\ UNCHANGED <<store, seen>>

(***************************************************************************)
(* NewRequest: the creation form                                           *)
(***************************************************************************)

\* the browser's constraint validation of the form: title, description and
\* amount are required, the amount is a number with min="0"
FormValid(formData) ==
  /\ formData.title # ""
  /\ formData.description # ""
  /\ formData.amount # ""
  /\ ParseAmount(formData.amount) >= 0

\* a field of the form is edited: setFormData({ ...formData, [field]: value })
setFormData(v, field, value) ==
  /\ views[v].page = "new"
  /\ value # views[v].formData[field]
  /\ views' = [views EXCEPT ![v].formData[field] = value]
  /\ UNCHANGED <<store, calls, seen, toast>>

\* a proforma file is picked or removed
SetProforma(v, file) ==
  /\ views[v].page = "new"
  /\ file # views[v].proforma
  /\ views' = [views EXCEPT ![v].proforma = file]
  /\ UNCHANGED <<store, calls, seen, toast>>

\* the create calls the server has not handled yet
CreatesUnderway == {c \in calls : c.op = "create" /\ c.phase = "sent"}

handleSubmit_NoValidation(v) ==
  /\ views[v].page = "new"
  /\ ~views[v].formLoading
  /\ IF views[v].proforma = NoFile
     THEN /\ Notify(v, "Missing proforma", "destructive")
          /\ UNCHANGED <<views, calls>>
     ELSE /\ Len(store) + Cardinality(CreatesUnderway) < MaxRequests
          /\ views' = [views EXCEPT ![v].formLoading = TRUE]
          /\ calls' = calls \cup
               {Call(v, "create", "create", 0, NoComment, views[v].proforma)}
          /\ UNCHANGED toast
  /\ UNCHANGED <<store, seen>>

handleSubmit_NoProformaCheck(v) ==
  /\ views[v].page = "new"
  /\ ~views[v].formLoading
  /\ FormValid(views[v].formData)
  /\ Len(store) + Cardinality(CreatesUnderway) < MaxRequests
  /\ views' = [views EXCEPT ![v].formLoading = TRUE]
  /\ calls' = calls \cup
       {Call(v, "create", "create", 0, NoComment, views[v].proforma)}
  /\ UNCHANGED <<store, seen, toast>>

\* Submit Request is clicked (disabled while loading): handleSubmit up to its
\* await.  Without a proforma it shows a toast and returns.
handleSubmitUpTo(v, most) ==
  /\ views[v].page = "new"
  /\ ~views[v].formLoading
  /\ FormValid(views[v].formData)
  /\ IF views[v].proforma = NoFile
     THEN /\ Notify(v, "Missing proforma", "destructive")
          /\ UNCHANGED <<views, calls>>
     ELSE /\ Len(store) + Cardinality(CreatesUnderway) < most
          /\ views' = [views EXCEPT ![v].formLoading = TRUE]
          /\ calls' = calls \cup
               {Call(v, "create", "create", 0, NoComment, views[v].proforma)}
          /\ UNCHANGED toast
  /\ UNCHANGED <<store, seen>>

\* the form is submitted, in a model of at most MaxRequests requests
handleSubmit(v) == handleSubmitUpTo(v, MaxRequests)

HandleSubmitOk_StaysOnForm(c) ==
  /\ c \in calls /\ c.thread = "create" /\ c.phase = "replied" /\ c.ok
  /\ calls' = calls \ {c}
  /\ views' = IF c.live THEN [views EXCEPT ![c.view].formLoading = FALSE] ELSE views
  /\ Notify(c.view, "Request created", "default")
  /\ UNCHANGED <<store, seen>>

\* handleSubmit after requestsAPI.create resolves: the toast, then
\* navigate(`/requests/${response.id}`).  That mounts the detail page; a tab
\* that shows a detail page by then keeps the mounted page, whose effect runs
\* again when the id in the route has changed.  (The model keeps one GET of a
\* kind in flight per page: the step waits while that very GET is under way.)
HandleSubmitOk(c) ==
  /\ c \in calls /\ c.thread = "create" /\ c.phase = "replied" /\ c.ok
  /\ fetchRequest(c.view, c.data.id) \notin calls
  /\ IF views[c.view].page # "detail"
     THEN /\ views' = [views EXCEPT
                         ![c.view] = MountDetail(views[c.view].user, c.data.id)]
          /\ calls' = Unmount(c.view, calls \ {c}) \cup
                        {fetchRequest(c.view, c.data.id)}
     ELSE IF views[c.view].id # c.data.id
     THEN /\ views' = [views EXCEPT ![c.view].id = c.data.id,
                                    ![c.view].loading = TRUE]
          /\ calls' = (calls \ {c}) \cup {fetchRequest(c.view, c.data.id)}
     ELSE /\ calls' = calls \ {c}
          /\ UNCHANGED views
  /\ Notify(c.view, "Request created", "default")
  /\ UNCHANGED <<store, seen>>

\* handleSubmit when requestsAPI.create rejects: the failure toast, then
\* setLoading(false)
HandleSubmitFail(c) ==
  /\ c \in calls /\ c.thread = "create"
  /\ calls' = calls \ {c}
  /\ views' = IF c.live THEN [views EXCEPT ![c.view].formLoading = FALSE] ELSE views
  /\ Notify(c.view, "Failed to create request", "destructive")
  /\ UNCHANGED <<store, seen>>

(***************************************************************************)
(* Spec: two tabs deciding and completing a request the server holds       *)
(***************************************************************************)

MainFrame == UNCHANGED <<gateVars, authVars, listVars, replyVars>>

\* the server when the tabs open: request 1, created by s1, is pending, or
\* a1 has approved it
PendingStore == <<NewRequest(1, "s1", SeedForm)>>
ApprovedStore == <<Decide(NewRequest(1, "s1", SeedForm), "a1", "approve", NoComment)>>

\* the accounts logged in on the two tabs: the creator twice, the creator and
\* an approver, or the two approvers
TabUsers == {<<"s1", "s1">>, <<"s1", "a2">>, <<"a1", "a2">>}

Init ==
  /\ store \in {PendingStore, ApprovedStore}
  /\ \E users \in TabUsers :
       views = [v \in Views |-> MountRequests(IF v = "v1" THEN users[1] ELSE users[2])]
  /\ calls = {}
  /\ seen = [v \in Views |-> {}]
  /\ toast = <<>>
  /\ GateIdle
  /\ AuthIdle
  /\ ListIdle
  /\ ReplyIdle

Next ==
  \/ \E v \in Views : GoRequests(v) /\ MainFrame
  \/ \E v \in Views, id \in 1..MaxRequests : OpenDetail(v, id) /\ MainFrame
  \/ \E c \in calls : ServerGet(c) /\ MainFrame
  \/ \E c \in calls : ServerDecide(c) /\ MainFrame
  \/ \E c \in calls : ServerSubmitReceipt(c) /\ MainFrame
  \/ \E c \in calls : FetchRequestOk(c) /\ MainFrame
  \/ \E c \in calls : FetchRequestFail(c) /\ MainFrame
  \/ \E v \in Views, text \in Comments : SetComment(v, text) /\ MainFrame
  \/ \E v \in Views, action \in {"approve", "reject"} : handleAction(v, action) /\ MainFrame
  \/ \E c \in calls : HandleActionMutated(c) /\ MainFrame
  \/ \E c \in calls : HandleActionRefetched(c) /\ MainFrame
  \/ \E c \in calls : HandleActionFail(c) /\ MainFrame
  \/ \E v \in Views, file \in {NoFile} \cup ReceiptFiles : SetReceipt(v, file) /\ MainFrame
  \/ \E v \in Views : handleSubmitReceipt(v) /\ MainFrame
  \/ \E c \in calls : HandleReceiptSubmitted(c) /\ MainFrame
  \/ \E c \in calls : HandleReceiptRefetched(c) /\ MainFrame
  \/ \E c \in calls : HandleReceiptFail(c) /\ MainFrame

Spec == Init /\ [][Next]_vars

(***************************************************************************)
(* SpecTab: one tab, every page and control of the client, from any        *)
(* account, against a server that is empty or holds request 1              *)
(***************************************************************************)

Tab == "v1"

InitTab ==
  /\ store \in {<<>>, PendingStore, ApprovedStore}
  /\ \E u \in AllUsers \cup {NoUser} :
       views = [v \in Views |-> MountRequests(IF v = Tab THEN u ELSE NoUser)]
  /\ calls = {}
  /\ seen = [v \in Views |-> {}]
  /\ toast = [v \in {Tab} |-> NoToast]
  /\ GateIdle
  /\ AuthIdle
  /\ ListIdle
  /\ ReplyIdle

NextTab ==
  \/ GoRequests(Tab) /\ MainFrame
  \/ \E id \in 1..MaxRequests : OpenDetail(Tab, id) /\ MainFrame
  \/ OpenNew(Tab) /\ MainFrame
  \/ \E c \in calls : ServerGet(c) /\ MainFrame
  \/ \E c \in calls : ServerDecide(c) /\ MainFrame
  \/ \E c \in calls : ServerSubmitReceipt(c) /\ MainFrame
  \/ \E c \in calls : ServerCreate(c) /\ MainFrame
  \/ \E c \in calls : FetchRequestOk(c) /\ MainFrame
  \/ \E c \in calls : FetchRequestFail(c) /\ MainFrame
  \/ \E text \in Comments : SetComment(Tab, text) /\ MainFrame
  \/ \E action \in {"approve", "reject"} : handleAction(Tab, action) /\ MainFrame
  \/ \E c \in calls : HandleActionMutated(c) /\ MainFrame
  \/ \E c \in calls : HandleActionRefetched(c) /\ MainFrame
  \/ \E c \in calls : HandleActionFail(c) /\ MainFrame
  \/ \E file \in {NoFile} \cup ReceiptFiles : SetReceipt(Tab, file) /\ MainFrame
  \/ handleSubmitReceipt(Tab) /\ MainFrame
  \/ \E c \in calls : HandleReceiptSubmitted(c) /\ MainFrame
  \/ \E c \in calls : HandleReceiptRefetched(c) /\ MainFrame
  \/ \E c \in calls : HandleReceiptFail(c) /\ MainFrame
  \/ \E title \in Titles : setFormData(Tab, "title", title) /\ MainFrame
  \/ \E description \in Descriptions :
       setFormData(Tab, "description", description) /\ MainFrame
  \/ \E amount \in Amounts : setFormData(Tab, "amount", amount) /\ MainFrame
  \/ \E file \in {NoFile, ProformaFile} : SetProforma(Tab, file) /\ MainFrame
  \/ handleSubmit(Tab) /\ MainFrame
  \/ \E c \in calls : HandleSubmitOk(c) /\ MainFrame
  \/ \E c \in calls : HandleSubmitFail(c) /\ MainFrame

SpecTab == InitTab /\ [][NextTab]_vars

(***************************************************************************)
(* Properties of the request lifecycle                                     *)
(***************************************************************************)

IsStaff(u) == u # NoUser /\ RoleOf(u) = "staff"

\* C3: for a user whose role is not staff (either approver level, finance, or
\* no user) no "New Request" navigation item or button is rendered, the
\* creation form is never mounted, and no create call is ever sent for them.
C3_CreateOnlyStaff ==
  /\ \A c \in calls : c.op = "create" => IsStaff(c.user)
  /\ ~IsStaff(views[Tab].user) =>
       /\ views[Tab].page # "new"
       /\ ~NewRequestButton(views[Tab].user)
       /\ \A item \in VisibleNav(views[Tab].user) : item.to # "/requests/new"
       /\ ~ENABLED OpenNew(Tab)
       /\ ~ENABLED handleSubmit(Tab)

\* the level-2 approver has gone from the list to a request's detail page,
\* and the server holds no request but the one that was there from the start
C3_Witness ==
  /\ views[Tab].user = "a2"
  /\ views[Tab].page = "detail"
  /\ views[Tab].request.id = 1
  /\ ~views[Tab].loading
  /\ Len(store) = 1

\* C4: the server's approve step takes a pending request to approved and
\* appends exactly one Approval record with the approver's level and the
\* comment sent; when handleAction completes for an approve, the detail view
\* shows status approved and a history one record longer than before the click.
C4_ApproveAppendsOneRecord ==
  [][/\ \A c \in calls :
          (c.op = "approve" /\ c.phase = "sent" /\ ServerDecide(c) /\ store' # store) =>
            LET old == store[c.id]
                new == store'[c.id]
            IN /\ old.status = "pending"
               /\ new.status = "approved"
               /\ Len(new.approvals) = Len(old.approvals) + 1
               /\ SubSeq(new.approvals, 1, Len(old.approvals)) = old.approvals
               /\ new.approvals[Len(new.approvals)] =
                    [approver_id |-> c.user,
                     approver_level |-> ApproverLevel(c.user),
                     status |-> "approved",
                     comment |-> c.comment]
               /\ ApproverLevel(c.user) \in {1, 2}
               /\ new = [old EXCEPT !.status = new.status, !.approvals = new.approvals]
     /\ \A c \in calls :
          (c.action = "approve" /\ c.live /\ HandleActionRefetched(c)) =>
            /\ views'[c.view].request.status = "approved"
            /\ Len(views'[c.view].request.approvals) =
                 Len(views[c.view].request.approvals) + 1
            /\ views'[c.view].request = c.data
    ]_vars

\* the level-2 approver's tab shows the request it approved with a comment
C4_Witness ==
  \E v \in Views :
    /\ views[v].user = "a2"
    /\ views[v].page = "detail"
    /\ ~views[v].actionLoading
    /\ views[v].request.status = "approved"
    /\ views[v].request.approvals =
         <<[approver_id |-> "a2", approver_level |-> 2,
            status |-> "approved", comment |-> "ok"]>>

\* C5: approve and reject change only a pending request: once a request's
\* status has left pending, no step changes its status or its approval records,
\* so it is decided at most once, whatever the tabs' calls interleave to.
C5_DecidedOnce ==
  /\ [](\A id \in 1..Len(store) :
          /\ Len(store[id].approvals) <= 1
          /\ (store[id].status = "pending") <=> (store[id].approvals = <<>>)
          /\ store[id].status # "pending" =>
               store[id].approvals[1].status = store[id].status)
  /\ [][/\ Len(store') >= Len(store)
        /\ \A id \in 1..Len(store) :
             store[id].status # "pending" =>
               /\ store'[id].status = store[id].status
               /\ store'[id].approvals = store[id].approvals
       ]_vars

\* both approvers decided the pending request they saw; a2's reject came
\* first, a1's approve was refused
C5_Witness ==
  /\ store[1].status = "rejected"
  /\ store[1].approvals[1].approver_id = "a2"
  /\ \E c \in calls : /\ c.user = "a1" /\ c.op = "approve"
                      /\ c.phase = "replied" /\ ~c.ok

Mutating(v) ==
  {c \in calls : /\ c.view = v /\ c.live
                 /\ c.op \in {"approve", "reject", "submitReceipt", "create"}}

\* C7: a mounted page has at most one mutating call in flight; while it has
\* one, its loading flag is set and none of Approve, Reject, Submit Receipt and
\* Submit Request can be triggered.
C7_OneMutationAtATime ==
  /\ Cardinality(Mutating(Tab)) <= 1
  /\ Mutating(Tab) # {} =>
       /\ views[Tab].actionLoading \/ views[Tab].formLoading
       /\ \A c \in Mutating(Tab) :
            IF c.op = "create" THEN views[Tab].formLoading
                               ELSE views[Tab].actionLoading
       /\ ~ENABLED handleAction(Tab, "approve")
       /\ ~ENABLED handleAction(Tab, "reject")
       /\ ~ENABLED handleSubmitReceipt(Tab)
       /\ ~ENABLED handleSubmit(Tab)

\* an approve is in flight on a page that still renders Approve and Reject
C7_Witness ==
  /\ \E c \in Mutating(Tab) : c.op = "approve" /\ c.phase = "sent"
  /\ {"approve", "reject"} \subseteq Rendered(Tab)
  /\ views[Tab].actionLoading

(***************************************************************************)
(* SpecList: the RequestsList and Dashboard pages and their list fetch     *)
(***************************************************************************)

\* the longest list a response carries
MaxListLen == 3

\* JavaScript values of a list response: an array of rows, or an object whose
\* results key is absent, null or an array of rows
JsArray(rows) ==
  [type |-> "array", rows |-> rows, results |-> "absent", resultRows |-> <<>>]
JsObject(results, rows) ==
  [type |-> "object", rows |-> <<>>, results |-> results, resultRows |-> rows]

\* String.prototype.toLowerCase, character by character
LowerChar(ch) == CASE ch = "A" -> "a" [] ch = "B" -> "b" [] OTHER -> ch
toLowerCase(str) == [i \in 1..Len(str) |-> LowerChar(str[i])]

\* String.prototype.includes on character sequences
includes(hay, needle) ==
  \E i \in 1..(Len(hay) + 1) :
    /\ i + Len(needle) - 1 <= Len(hay)
    /\ SubSeq(hay, i, i + Len(needle) - 1) = needle

\* the requests the server may list, as far as the list pages read them
Rows ==
  { [title |-> <<"A", "b">>, description |-> <<"b", "a">>, status |-> "pending"],
    [title |-> <<"b">>, description |-> <<"a", "A">>, status |-> "approved"],
    [title |-> <<"a">>, description |-> <<>>, status |-> "rejected"],
    [title |-> <<"A", "B">>, description |-> <<"b">>, status |-> "approved"] }

RowLists == UNION {[1..n -> Rows] : n \in 0..MaxListLen}

\* what GET /requests/ answers: an array, a paginated envelope, or an object
\* without (or with a null) results
ListBodies ==
  {JsArray(l) : l \in RowLists} \cup {JsObject("array", l) : l \in RowLists}
    \cup {JsObject("absent", <<>>), JsObject("null", <<>>)}

\* what the search box and the status select can hold
SearchTerms == {<<>>, <<"a">>, <<"A", "B">>, <<"b", "a">>, <<"c">>}
StatusFilters == RequestStatus \cup {"all"}

list_ReturnsData(data) == data

\* requestsAPI.list after apiRequest resolved with data
list(data) ==
  IF data.type = "array" THEN data
  ELSE IF data.results \in {"absent", "null"} THEN JsArray(<<>>)
  ELSE JsArray(data.resultRows)

filteredRequests_CaseSensitive(requests, searchTerm, statusFilter) ==
  LET matches(request) ==
        /\ \/ includes(request.title, searchTerm)
           \/ includes(request.description, searchTerm)
        /\ statusFilter = "all" \/ request.status = statusFilter
  IN SelectSeq(requests, matches)

\* RequestsList.tsx:60-71
filteredRequests(requests, searchTerm, statusFilter) ==
  LET matches(request) ==
        LET matchesSearch ==
              \/ includes(toLowerCase(request.title), toLowerCase(searchTerm))
              \/ includes(toLowerCase(request.description), toLowerCase(searchTerm))
            matchesStatus == statusFilter = "all" \/ request.status = statusFilter
        IN matchesSearch /\ matchesStatus
  IN SelectSeq(requests, matches)

ListFrame == UNCHANGED <<gateVars, authVars, replyVars, store, views, calls, seen>>

\* the page mounts: its useState values, and the effect has called
\* requestsAPI.list()
MountList(page) ==
  [page |-> page, requests |-> JsArray(<<>>), loading |-> TRUE,
   searchTerm |-> <<>>, statusFilter |-> "all", shown |-> <<>>]

InitList ==
  /\ \E page \in {"requests", "dashboard"} : listView = MountList(page)
  /\ listCall = [phase |-> "sent", ok |-> FALSE, body |-> JsArray(<<>>)]
  /\ toast = [v \in {Tab} |-> NoToast]
  /\ store = <<>>
  /\ views = [v \in Views |-> MountRequests(NoUser)]
  /\ calls = {}
  /\ seen = [v \in Views |-> {}]
  /\ GateIdle
  /\ AuthIdle
  /\ ReplyIdle

\* what the page lists: the filtered requests on RequestsList, the requests
\* themselves on the Dashboard
Listed(lv) ==
  IF lv.page = "requests"
  THEN filteredRequests(lv.requests.rows, lv.searchTerm, lv.statusFilter)
  ELSE lv.requests.rows

Relist(lv) == [lv EXCEPT !.shown = Listed(lv)]

\* GET /requests/ answers with a success status and a body, or with an error
ServerList ==
  /\ listCall.phase = "sent"
  /\ \/ \E body \in ListBodies :
          listCall' = [phase |-> "replied", ok |-> TRUE, body |-> body]
     \/ listCall' = [listCall EXCEPT !.phase = "replied", !.ok = FALSE]
  /\ UNCHANGED <<listView, toast>>
  /\ ListFrame

\* fetchRequests after requestsAPI.list() resolves: setRequests(data), then
\* setLoading(false)
FetchRequestsOk ==
  /\ listCall.phase = "replied" /\ listCall.ok
  /\ listView' = Relist([listView EXCEPT !.requests = list(listCall.body),
                                         !.loading = FALSE])
  /\ listCall' = [listCall EXCEPT !.phase = "resolved"]
  /\ UNCHANGED toast
  /\ ListFrame

\* fetchRequests when requestsAPI.list() rejects (an error status, or the
\* transport fails before or after the server answered): console.error, then
\* setLoading(false)
FetchRequestsFail ==
  /\ listCall.phase \in {"sent", "replied"}
  /\ listView' = [listView EXCEPT !.loading = FALSE]
  /\ listCall' = [listCall EXCEPT !.phase = "rejected"]
  /\ UNCHANGED toast
  /\ ListFrame

\* RequestsList.tsx:101: the search box is edited
setSearchTerm(term) ==
  /\ listView.page = "requests"
  /\ term # listView.searchTerm
  /\ listView' = Relist([listView EXCEPT !.searchTerm = term])
  /\ UNCHANGED <<listCall, toast>>
  /\ ListFrame

\* the status select is changed
setStatusFilter(filter) ==
  /\ listView.page = "requests"
  /\ filter # listView.statusFilter
  /\ listView' = Relist([listView EXCEPT !.statusFilter = filter])
  /\ UNCHANGED <<listCall, toast>>
  /\ ListFrame

NextList ==
  \/ ServerList
  \/ FetchRequestsOk
  \/ FetchRequestsFail
  \/ \E term \in SearchTerms : setSearchTerm(term)
  \/ \E filter \in StatusFilters : setStatusFilter(filter)

SpecList == InitList /\ [][NextList]_vars

\* C11 (as claimed): every failed API call of a view, the list fetch of the
\* dashboard and of the requests list included, ends with a notification
\* displayed to the user.
C11_EveryFailureNotified ==
  listCall.phase = "rejected" => toast[Tab].variant = "destructive"

\* C12: the step that handles a failed approve, reject, submit-receipt or
\* create on a mounted page changes nothing of the page but its loading flag,
\* which it clears: the held request, the comment, the selected files and the
\* form fields stay as they are (the user may have edited them meanwhile), and
\* the page renders the same controls as before the step, now with the
\* loading flag off, so that they are enabled.
C12_FailureRestoresView ==
  [][\A c \in calls :
       c.live =>
         /\ HandleActionFail(c) =>
              /\ views' = [views EXCEPT ![c.view].actionLoading = FALSE]
              /\ Rendered(c.view)' = Rendered(c.view)
              /\ ~views'[c.view].actionLoading
         /\ HandleReceiptFail(c) =>
              /\ views' = [views EXCEPT ![c.view].actionLoading = FALSE]
              /\ Rendered(c.view)' = Rendered(c.view)
              /\ ~views'[c.view].actionLoading
         /\ HandleSubmitFail(c) =>
              /\ views' = [views EXCEPT ![c.view].formLoading = FALSE]
              /\ views'[c.view].page = "new"
              /\ ~views'[c.view].formLoading
    ]_vars

\* the approver's approve has failed: the comment typed is still there, the
\* pending request is still shown with Approve and Reject, nothing is loading
C12_Witness ==
  /\ toast[Tab] = [title |-> "Failed to approve request", variant |-> "destructive"]
  /\ views[Tab].page = "detail"
  /\ views[Tab].comment = "ok"
  /\ views[Tab].request.status = "pending"
  /\ ~views[Tab].actionLoading
  /\ {"approve", "reject"} \subseteq Rendered(Tab)
  /\ \A c \in calls : c.view # Tab

\* the HTTP requests on their way to the server
Sent(cs) == {c \in cs : c.phase = "sent"}

\* the requests of cs as they are once their pages are unmounted
Left(cs) == {[c EXCEPT !.live = FALSE] : c \in cs}

\* C13: no step sends more than one request; a step that handles a failure
\* sends none; an approve, reject, submit-receipt or create request is sent
\* only by the step of the user's click, one per click; and a GET of a
\* request is sent only by a page load (one per load) or as the one re-fetch
\* after a mutation succeeded.
C13_NoAutomaticRetry ==
  [][LET NewSent == Sent(calls') \ (Sent(calls) \cup Left(Sent(calls)))
         Clicked == \/ \E action \in {"approve", "reject"} : handleAction(Tab, action)
                    \/ handleSubmitReceipt(Tab)
                    \/ handleSubmit(Tab)
         Loaded == \/ \E id \in 1..MaxRequests : OpenDetail(Tab, id)
                   \/ \E c \in calls : HandleSubmitOk(c) /\ views'[Tab].id # views[Tab].id
         Mutated == \E c \in calls : HandleActionMutated(c) \/ HandleReceiptSubmitted(c)
     IN /\ Cardinality(NewSent) <= 1
        /\ \A c \in calls :
             (\/ FetchRequestFail(c) \/ HandleActionFail(c)
              \/ HandleReceiptFail(c) \/ HandleSubmitFail(c)) => NewSent = {}
        /\ \A r \in NewSent :
             IF r.op = "get"
             THEN (r.thread = "fetch" /\ Loaded) \/ (r.thread # "fetch" /\ Mutated)
             ELSE Clicked
        /\ Loaded => Cardinality(NewSent) = 1
    ]_vars

\* the approver's reject has failed and nothing is in flight: the request is
\* still pending on the server and the view waits for the user
C13_Witness ==
  /\ toast[Tab] = [title |-> "Failed to reject request", variant |-> "destructive"]
  /\ calls = {}
  /\ store[1].status = "pending"
  /\ ~views[Tab].actionLoading

\* C14: submitting the form without a proforma sends nothing, leaves the
\* loading flag off and the form fields as they are, and shows the "Missing
\* proforma" notification; submitting it with one sends one create call that
\* carries the title, description and amount of the form and the file; so
\* every create call in flight carries a proforma file.
C14_ProformaRequired ==
  /\ [](\A c \in calls : c.op = "create" =>
          /\ c.file = ProformaFile
          /\ c.form.title # "" /\ c.form.description # "" /\ c.form.amount # "")
  /\ [][handleSubmit(Tab) =>
          IF views[Tab].proforma = NoFile
          THEN /\ calls' = calls
               /\ views' = views
               /\ ~views'[Tab].formLoading
               /\ toast'[Tab] = [title |-> "Missing proforma", variant |-> "destructive"]
          ELSE \E c \in calls' \ calls :
                 /\ calls' = calls \cup {c}
                 /\ c.op = "create" /\ c.phase = "sent"
                 /\ c.form = views[Tab].formData
                 /\ c.file = views[Tab].proforma
      ]_vars

\* the filled-in form was submitted without a proforma: the notification is
\* shown, nothing was sent and nothing was created
C14_Witness ==
  /\ toast[Tab] = [title |-> "Missing proforma", variant |-> "destructive"]
  /\ views[Tab].page = "new"
  /\ views[Tab].formData = [title |-> "T", description |-> "D", amount |-> "100.00"]
  /\ views[Tab].proforma = NoFile
  /\ ~views[Tab].formLoading
  /\ calls = {}
  /\ store = <<>>

\* the two characters are the same letter, whatever their case
SameLetter(a, b) == LowerChar(a) = LowerChar(b)

\* the term occurs in the text at some offset, letter by letter
Occurs(term, text) ==
  \E offset \in 0..Len(text) :
    /\ offset + Len(term) <= Len(text)
    /\ \A k \in 1..Len(term) : SameLetter(text[offset + k], term[k])

\* the positions of the fetched list that the search term and the status
\* filter select
Selected(lv) ==
  {i \in 1..Len(lv.requests.rows) :
     /\ \/ Occurs(lv.searchTerm, lv.requests.rows[i].title)
        \/ Occurs(lv.searchTerm, lv.requests.rows[i].description)
     /\ lv.statusFilter \in {"all", lv.requests.rows[i].status}}

\* C16: on the requests list, the rows shown are exactly the fetched requests
\* whose title or description contains the search term, case ignored, and
\* whose status is the selected one (any status under "all"), in the order of
\* the fetched list; the empty term selects every request.
C16_FilterIsExact ==
  listView.page = "requests" =>
    /\ \E at \in [1..Len(listView.shown) -> 1..Len(listView.requests.rows)] :
         /\ \A i, j \in DOMAIN at : i < j => at[i] < at[j]
         /\ {at[i] : i \in DOMAIN at} = Selected(listView)
         /\ \A i \in DOMAIN at : listView.shown[i] = listView.requests.rows[at[i]]
    /\ listView.searchTerm = <<>> /\ listView.statusFilter = "all"
         => listView.shown = listView.requests.rows

\* a term in capitals finds a title in mixed case, and leaves another row out
C16_Witness ==
  /\ listView.page = "requests"
  /\ listView.searchTerm = <<"A", "B">>
  /\ Len(listView.shown) = 1
  /\ Len(listView.requests.rows) = 2
  /\ listView.shown[1].title = <<"A", "b">>

C18_ContentTypeFollowsBody ==
  \A c \in wire :
    /\ c.contentType = "application/json" <=> c.body # "FormData"
    /\ c.op \in {"create", "submitReceipt"} =>
         c.body = "FormData" /\ c.contentType # "application/json"
    /\ c.op \in {"login", "update", "approve", "reject"} =>
         c.body = "JSON" /\ c.contentType = "application/json"

\* a multipart call and a JSON call are in flight together
C18_Witness ==
  /\ \E c \in wire : c.op = "create" /\ c.contentType = "<none>"
  /\ \E c \in wire : c.op = "approve" /\ c.contentType = "application/json"

\* the server answers call d in this step: d was sent and is now replied
Answered(d) ==
  /\ d \in calls' \ calls
  /\ d.phase = "replied"
  /\ LET c == [d EXCEPT !.phase = "sent", !.ok = FALSE, !.data = NoRequest]
     IN c \in calls \ calls'

\* the GET /requests/{id}/ calls of the tab whose promise has resolved in a
\* mounted component
ResolvedGets ==
  {c \in calls : /\ c.view = Tab /\ c.live /\ c.op = "get"
                 /\ c.phase = "replied" /\ c.ok}

\* C19: the copy of the request a detail view holds changes only when a GET of
\* a request resolves, and then it becomes what that GET returned (which is
\* what the server stored under that id); a new page instance starts without a
\* copy.  When approve, reject or submit-receipt resolves, the handler leaves
\* the copy alone and sends a GET for the same request, whose result is shown.
C19_CopyOnlyFromFetch ==
  [][ /\ views'[Tab].request # views[Tab].request =>
           \/ /\ views'[Tab].request = NoRequest
              /\ views'[Tab].page # views[Tab].page
           \/ \E c \in ResolvedGets :
                /\ c \notin calls'
                /\ views'[Tab].request = c.data
                /\ c.data.id = c.id
      /\ \A d \in calls' \ calls :
           Answered(d) /\ d.op = "get" /\ d.ok => d.data = store[d.id]
      /\ \A c \in calls :
           HandleActionMutated(c) \/ HandleReceiptSubmitted(c) =>
             /\ views' = views
             /\ \E d \in calls' \ calls :
                  /\ d.op = "get" /\ d.phase = "sent" /\ d.id = c.id
                  /\ d.view = c.view /\ d.thread = c.thread
      /\ \A c \in calls :
           (c.live /\ (HandleActionRefetched(c) \/ HandleReceiptRefetched(c))) =>
             views'[c.view].request = c.data
    ]_vars

\* the view shows an approved request that it fetched again after its own
\* approve call
C19_Witness ==
  /\ views[Tab].page = "detail"
  /\ views[Tab].request.status = "approved"
  /\ views[Tab].request = store[views[Tab].id]
  /\ ~views[Tab].actionLoading
  /\ toast[Tab].title = "Request approved"

\* the amount of a form as a number of cents, for the amounts a form can be
\* sent with
Cents(amount) == IF amount = "100.00" THEN 10000 ELSE 0

\* C20: a create call carries the title, description, amount and proforma of
\* the form; the request the server answers with is stored under the returned
\* id, is pending and has that title, description and amount; the client then
\* opens the detail view of exactly the returned id and fetches it; the stored
\* title, description and amount never change, and the copy a detail view
\* shows has those of the stored request of its id, pending as long as nobody
\* decided it.
C20_CreateThenFetch ==
  [][ /\ \A d \in calls' \ calls :
           d.op = "create" /\ d.phase = "sent" /\ d.live =>
             /\ d.form = views[d.view].formData
             /\ d.file = views[d.view].proforma /\ d.file # NoFile
      /\ \A d \in calls' \ calls :
           Answered(d) /\ d.op = "create" /\ d.ok
           => /\ d.data.id = Len(store') /\ Len(store') = Len(store) + 1
              /\ store'[d.data.id] = d.data
              /\ d.data.status = "pending"
              /\ d.data.title = d.form.title /\ d.data.title # ""
              /\ d.data.description = d.form.description
              /\ d.data.amount = Cents(d.form.amount)
      /\ \A c \in calls :
           HandleSubmitOk(c) =>
             /\ views'[c.view].page = "detail"
             /\ views'[c.view].id = c.data.id
             /\ \/ \E d \in calls' : /\ d.op = "get" /\ d.id = c.data.id
                                     /\ d.view = c.view /\ d.live
                \/ views[c.view].page = "detail" /\ views[c.view].id = c.data.id
      /\ \A i \in 1..Len(store) :
           /\ store'[i].title = store[i].title
           /\ store'[i].description = store[i].description
           /\ store'[i].amount = store[i].amount
      /\ views'[Tab].request # NoRequest =>
           LET shown == views'[Tab].request
           IN /\ shown.id \in 1..Len(store')
              /\ shown.title = store'[shown.id].title
              /\ shown.description = store'[shown.id].description
              /\ shown.amount = store'[shown.id].amount
              /\ shown.approvals = <<>> => shown.status = "pending"
    ]_vars

\* right after "Request created", the detail view shows the request of the
\* form "T" / "D" / "100.00", as fetched by the id the create call returned
C20_Witness ==
  /\ views[Tab].page = "detail"
  /\ views[Tab].request.id = views[Tab].id
  /\ views[Tab].request.status = "pending"
  /\ views[Tab].request.title = "T"
  /\ views[Tab].request.description = "D"
  /\ views[Tab].request.amount = 10000
  /\ toast[Tab].title = "Request created"

(***************************************************************************)
(* SpecReply: apiRequest from the response of fetch on                     *)
(***************************************************************************)

Statuses == {200, 201, 204, 400, 401, 403, 404, 409, 500, 502}

\* the body of a response: not JSON, the JSON literal null, a JSON string, or
\* a JSON object whose message is absent, empty or a text
Messages == {"Invalid credentials", "Request is not pending"}
Bodies ==
  [json : {"unparseable", "null", "string"}, message : {NoComment}]
    \cup [json : {"object"}, message : {NoComment, ""} \cup Messages]

\* Response.ok
Ok(status) == status >= 200 /\ status <= 299

\* part_000:47-57: what apiRequest does with the response
settle(status, body) ==
  IF ~Ok(status)
  THEN \* const error = await response.json().catch(() => ({}))
       LET error == IF body.json = "unparseable"
                    THEN [json |-> "object", message |-> NoComment]
                    ELSE body
       IN IF error.json = "null"
          THEN \* error.message of null
               [kind |-> "TypeError", message |-> "Cannot read properties of null"]
          ELSE \* throw new Error(error.message || `API Error: ${response.status}`)
               [kind |-> "Error",
                message |-> IF error.json = "object" /\ Truthy(error.message)
                            THEN error.message
                            ELSE "API Error: " \o ToString(status)]
  ELSE \* return response.json()
       IF body.json = "unparseable"
       THEN [kind |-> "SyntaxError", message |-> "Unexpected token"]
       ELSE [kind |-> "returned", message |-> ""]

InitReply ==
  /\ \E status \in Statuses, body \in Bodies :
       response = [status |-> status, json |-> body.json, message |-> body.message]
  /\ outcome = [kind |-> "pending", message |-> ""]
  /\ GateIdle
  /\ AuthIdle
  /\ MainIdle
  /\ ListIdle

\* the awaited fetch has resolved with the response
Settle ==
  /\ outcome.kind = "pending"
  /\ outcome' = settle(response.status,
                       [json |-> response.json, message |-> response.message])
  /\ UNCHANGED <<response, gateVars, authVars, mainVars, listVars>>

NextReply == Settle

SpecReply == InitReply /\ [][NextReply]_vars

\* C15 (as claimed): on every non-success status apiRequest throws an Error
\* whose message is the body's non-empty message, else "API Error: <status>";
\* on a success status it never throws that Error.
C15_FailureCarriesMessage ==
  outcome.kind # "pending" =>
    IF ~Ok(response.status)
    THEN /\ outcome.kind = "Error"
         /\ outcome.message =
              IF response.json = "object" /\ response.message \notin {NoComment, ""}
              THEN response.message
              ELSE "API Error: " \o ToString(response.status)
    ELSE outcome.kind # "Error"

\* C21: no create call carries an empty (non-numeric) or negative amount, so
\* no stored request has a negative amount; and every request the client
\* holds, in a view or in a response, has a non-negative amount and a status
\* that is pending, approved or rejected.
C21_AmountAndStatus ==
  /\ \A c \in calls :
       c.op = "create" => c.form.amount \notin {"", "-5"}
  /\ \A i \in 1..Len(store) : store[i].amount >= 0
  /\ \A c \in calls :
       c.data # NoRequest =>
         c.data.amount >= 0 /\ c.data.status \in {"pending", "approved", "rejected"}
  /\ views[Tab].request # NoRequest =>
       /\ views[Tab].request.amount >= 0
       /\ views[Tab].request.status \in {"pending", "approved", "rejected"}

\* a create call is on its way with the amount 100.00 while the amount field
\* has since been changed to -5
C21_Witness ==
  /\ views[Tab].page = "new"
  /\ views[Tab].formData.amount = "-5"
  /\ \E c \in calls : c.op = "create" /\ c.live /\ c.form.amount = "100.00"

\* RequestDetail.tsx:282-311: the Approval History card, one entry per record
\* of request.approvals.map(...): the approver, "Level n Approver", the icon
\* of the decision, and the comment when there is one
ApprovalHistory(request) ==
  [i \in 1..Len(request.approvals) |->
     [approver |-> request.approvals[i].approver_id,
      level |-> request.approvals[i].approver_level,
      icon |-> IF request.approvals[i].status = "approved"
               THEN "CheckCircle" ELSE "XCircle",
      comment |-> IF Truthy(request.approvals[i].comment)
                  THEN request.approvals[i].comment ELSE NoComment]]

approveBody_KeepsEmpty(comment) ==
  IF comment = NoComment THEN "{\"comment\":\"\"}"
  ELSE "{\"comment\":\"" \o comment \o "\"}"

\* part_000:111-123: JSON.stringify({ comment }), which leaves out a key
\* whose value is undefined
approveBody(comment) ==
  IF comment = NoComment THEN "{}"
  ELSE "{\"comment\":\"" \o comment \o "\"}"

\* the approve and reject calls this step sends from a mounted page
NewDecisions ==
  {d \in calls' \ calls : d.live /\ d.phase = "sent" /\ d.op \in {"approve", "reject"}}

\* the body of every approve or reject call sent is {} when the comment field
\* is empty and carries the text of the field otherwise
CommentAsTyped ==
  \A d \in NewDecisions :
    /\ approveBody(d.comment) =
         IF views[d.view].comment = "" THEN "{}"
         ELSE "{\"comment\":\"" \o views[d.view].comment \o "\"}"
    /\ approveBody(d.comment) # "{\"comment\":\"\"}"

\* a mounted page's handleAction ends in this step, after its approve or
\* reject had resolved (the call is the re-fetch by then)
EndsAfterMutation(c) ==
  /\ c \in calls /\ c.live /\ c.thread = "action" /\ c.op = "get"
  /\ \A d \in calls' : ~(d.thread = "action" /\ d.view = c.view /\ d.live)
  /\ views'[c.view].page = "detail"

Applied(c) == c.thread \in {"action", "receipt"} /\ c.op = "get"

\* C24 (as claimed): a step that shows "Failed to approve request", "Failed to
\* reject request" or "Failed to submit receipt" on a mounted detail page is
\* never the end of a handler whose action the server has applied.
C24_FailureMeansNotApplied ==
  [][\A c \in calls :
       (c.live /\ (HandleActionFail(c) \/ HandleReceiptFail(c))) => ~Applied(c)
    ]_vars

\* C25 (as claimed): whenever a page sends an approve or reject, the request
\* is pending on the server at that moment.
C25_PendingWhenSent ==
  [][\A d \in NewDecisions : store[d.id].status = "pending"]_vars

\* C25 (amended): whenever a page sends an approve or reject, the copy the
\* page holds is pending and its user is an approver; the server may hold
\* another status by then, and in that case it refuses the call and changes
\* nothing.
C25_PendingCopyWhenSent ==
  [][/\ \A d \in NewDecisions :
          /\ views[d.view].request.status = "pending"
          /\ views[d.view].request.id = d.id
          /\ RoleOf(d.user) \in {"approver-level-1", "approver-level-2"}
     /\ \A d \in calls' \ calls :
          (Answered(d) /\ d.op \in {"approve", "reject"}
             /\ store[d.id].status # "pending")
            => ~d.ok /\ store' = store
    ]_vars

\* a1's approve is on its way for a request a2 has rejected meanwhile, sent
\* from a page that still shows it as pending
C25_Witness ==
  \E c \in calls :
    /\ c.op = "approve" /\ c.phase = "sent" /\ c.live /\ c.user = "a1"
    /\ views[c.view].request.status = "pending"
    /\ store[c.id].status = "rejected"
    /\ store[c.id].approvals[1].approver_id = "a2"

(***************************************************************************)
(* SpecLive: the pages of one tab under fair scheduling.  The tab shows    *)
(* either a list page with its fetch, or the detail and creation pages.    *)
(***************************************************************************)

InitLive ==
  \/ InitList
  \/ /\ store \in {<<>>, PendingStore, ApprovedStore}
     /\ \E u \in AllUsers \cup {NoUser} :
          views = [v \in Views |-> MountRequests(IF v = Tab THEN u ELSE NoUser)]
     /\ calls = {}
     /\ seen = [v \in Views |-> {}]
     /\ toast = <<>>
     /\ GateIdle
     /\ AuthIdle
     /\ ListIdle
     /\ ReplyIdle

NextLive ==
  \/ NextTab
  \/ NextList

\* a call of a mounted page moves on: the server answers it, or its promise
\* settles and the handler runs to its end or to its next await
Settles ==
  /\ \E c \in calls :
       /\ c.live
       /\ \/ ServerGet(c) \/ ServerDecide(c) \/ ServerSubmitReceipt(c)
          \/ ServerCreate(c)
          \/ FetchRequestOk(c) \/ FetchRequestFail(c)
          \/ HandleActionMutated(c) \/ HandleActionRefetched(c) \/ HandleActionFail(c)
          \/ HandleReceiptSubmitted(c) \/ HandleReceiptRefetched(c)
          \/ HandleReceiptFail(c)
          \/ HandleSubmitOk(c) \/ HandleSubmitFail(c)
  /\ MainFrame

\* the list fetch moves on
ListSettles == ServerList \/ FetchRequestsOk \/ FetchRequestsFail

\* every call is answered or fails, and the event loop runs the continuation
SpecLive ==
  /\ InitLive
  /\ [][NextLive]_vars
  /\ WF_vars(Settles)
  /\ WF_vars(ListSettles)

\* C26: a page that is loading, a detail page whose action is under way and
\* a form that is submitting each get to a state with that flag off, whether
\* the call succeeds or fails.
C26_LoadingEventuallyCleared ==
  /\ views[Tab].loading ~> ~views[Tab].loading
  /\ views[Tab].actionLoading ~> ~views[Tab].actionLoading
  /\ views[Tab].formLoading ~> ~views[Tab].formLoading
  /\ listView.loading ~> ~listView.loading

\* the detail fetch has ended without a request and the page is no longer
\* loading
C26_Witness ==
  /\ views[Tab].page = "detail"
  /\ views[Tab].request = NoRequest
  /\ ~views[Tab].loading
  /\ \A c \in calls : ~c.live

(***************************************************************************)
(* SpecRoute: one tab, of the creator of a stored request or of an         *)
(* approver; the creator may create one request more, so that the route of *)
(* a mounted detail page can change                                        *)
(***************************************************************************)

\* the most requests the server holds here: the stored one and the new ones
MaxRouted == MaxRequests + 1

InitRoute ==
  /\ store \in {PendingStore, ApprovedStore}
  /\ \E u \in {"s1", "a1"} :
       views = [v \in Views |-> MountRequests(IF v = Tab THEN u ELSE NoUser)]
  /\ calls = {}
  /\ seen = [v \in Views |-> {}]
  /\ toast = <<>>
  /\ GateIdle
  /\ AuthIdle
  /\ ListIdle
  /\ ReplyIdle

NextRoute ==
  \/ GoRequests(Tab) /\ MainFrame
  \/ \E id \in 1..MaxRouted : OpenDetail(Tab, id) /\ MainFrame
  \/ OpenNew(Tab) /\ MainFrame
  \/ \E c \in calls : ServerGet(c) /\ MainFrame
  \/ \E c \in calls : ServerDecide(c) /\ MainFrame
  \/ \E c \in calls : ServerSubmitReceipt(c) /\ MainFrame
  \/ \E c \in calls : ServerCreate(c) /\ MainFrame
  \/ \E c \in calls : FetchRequestOk(c) /\ MainFrame
  \/ \E c \in calls : FetchRequestFail(c) /\ MainFrame
  \/ \E text \in Comments : SetComment(Tab, text) /\ MainFrame
  \/ \E action \in {"approve", "reject"} : handleAction(Tab, action) /\ MainFrame
  \/ \E c \in calls : HandleActionMutated(c) /\ MainFrame
  \/ \E c \in calls : HandleActionRefetched(c) /\ MainFrame
  \/ \E c \in calls : HandleActionFail(c) /\ MainFrame
  \/ \E file \in {NoFile} \cup ReceiptFiles : SetReceipt(Tab, file) /\ MainFrame
  \/ handleSubmitReceipt(Tab) /\ MainFrame
  \/ \E c \in calls : HandleReceiptSubmitted(c) /\ MainFrame
  \/ \E c \in calls : HandleReceiptRefetched(c) /\ MainFrame
  \/ \E c \in calls : HandleReceiptFail(c) /\ MainFrame
  \/ \E title \in Titles : setFormData(Tab, "title", title) /\ MainFrame
  \/ \E description \in Descriptions :
       setFormData(Tab, "description", description) /\ MainFrame
  \/ \E amount \in Amounts : setFormData(Tab, "amount", amount) /\ MainFrame
  \/ \E file \in {NoFile, ProformaFile} : SetProforma(Tab, file) /\ MainFrame
  \/ handleSubmitUpTo(Tab, MaxRouted) /\ MainFrame
  \/ \E c \in calls : HandleSubmitOk(c) /\ MainFrame
  \/ \E c \in calls : HandleSubmitFail(c) /\ MainFrame

SpecRoute == InitRoute /\ [][NextRoute]_vars

\* C27 (as claimed): the request a detail page shows is the one of the id in
\* its route, whatever the order in which the responses arrive.
C27_ShownBelongsToRoute ==
  \A v \in Views :
    (views[v].page = "detail" /\ ~views[v].loading /\ views[v].request # NoRequest)
      => views[v].request.id = views[v].id

\* C28: logout leaves no token stored; a call made while no token is stored
\* carries no Authorization header; a stored token is the one the latest
\* successful login since the last logout returned; and the stored token
\* changes only when a login returns a token (which is then the stored one)
\* or at logout (which removes it): no other call's end, success or failure,
\* touches it.
C28_TokenFromLoginToLogout ==
  /\ [](/\ token # NoToken => token \in Tokens /\ token = granted
        /\ \A c \in wire : c.stored = NoToken => c.authorization = NoHeader)
  /\ [][/\ logout => token' = NoToken
        /\ token' # token =>
             \/ /\ token' = NoToken
                /\ wire' = wire /\ granted' = NoToken
             \/ /\ token' \in Tokens
                /\ \E c \in wire : c.op = "login" /\ wire' = wire \ {c}
                /\ loginOutcome' = "returned"
                /\ granted' = token'
       ]_vars

\* after a logout: nothing is stored, a call made before it is still on its
\* way with the token, and a call made since carries no header
C28_Witness ==
  /\ token = NoToken
  /\ granted = NoToken
  /\ \E c \in wire : c.stored \in Tokens /\ c.authorization = <<"Bearer", c.stored>>
  /\ \E c \in wire : /\ c.op # "login" /\ c.stored = NoToken
                     /\ c.authorization = NoHeader

\* the approve, reject and submit-receipt calls this step sends from a
\* mounted page
NewMutations ==
  {d \in calls' \ calls :
     d.live /\ d.phase = "sent" /\ d.op \in {"approve", "reject", "submitReceipt"}}

\* a detail page without a request shows "Request Not Found" and none of the
\* controls, and a mutating call is only sent from a page that shows a
\* request and renders the control of that call
NotFoundHasNoControls ==
  /\ \A v \in Views :
       (views[v].page = "detail" /\ ~views[v].loading /\ views[v].request = NoRequest)
         => Rendered(v) = {"not-found"}
  /\ \A d \in NewMutations :
       /\ views[d.view].request # NoRequest
       /\ ~views[d.view].loading
       /\ (IF d.op = "submitReceipt" THEN "submit-receipt" ELSE d.op)
            \in Rendered(d.view)

stats(requests) ==
  [total |-> Len(requests),
   pending |-> Len(SelectSeq(requests, LAMBDA r : r.status = "pending")),
   approved |-> Len(SelectSeq(requests, LAMBDA r : r.status = "approved")),
   rejected |-> Len(SelectSeq(requests, LAMBDA r : r.status = "rejected"))]

approvalRate_Truncated(st) ==
  IF st.total # 0 THEN (st.approved * 100) \div st.total ELSE 0

\* Dashboard.tsx:88-90: Math.round((approved / total) * 100), which rounds a
\* half upwards, or 0 without requests
approvalRate(st) ==
  IF st.total # 0
  THEN (2 * st.approved * 100 + st.total) \div (2 * st.total)
  ELSE 0

\* the positions of the dashboard's requests that have the status
WithStatus(status) ==
  {i \in 1..Len(listView.requests.rows) : listView.requests.rows[i].status = status}

\* C30: on the dashboard the total is the number of fetched requests, the
\* pending, approved and rejected counts are the numbers of requests of each
\* status and sum to the total, the approval rate is the whole number nearest
\* to 100 * approved / total, between 0 and 100, and 0 without requests; and
\* after a failed fetch every count is 0.
C30_DashboardAggregates ==
  listView.page = "dashboard" =>
    LET st == stats(listView.requests.rows)
        rate == approvalRate(st)
        off == 100 * st.approved - rate * st.total
    IN /\ st.total = Len(listView.requests.rows)
       /\ st.pending = Cardinality(WithStatus("pending"))
       /\ st.approved = Cardinality(WithStatus("approved"))
       /\ st.rejected = Cardinality(WithStatus("rejected"))
       /\ st.pending + st.approved + st.rejected = st.total
       /\ rate \in 0..100
       /\ st.total = 0 => rate = 0
       /\ st.total > 0 => 2 * off <= st.total /\ 2 * off > 0 - st.total
       /\ listCall.phase = "rejected" =>
            st = [total |-> 0, pending |-> 0, approved |-> 0, rejected |-> 0]
              /\ rate = 0

\* the dashboard shows three requests, two of them approved: 67%
C30_Witness ==
  /\ listView.page = "dashboard"
  /\ listCall.phase = "resolved"
  /\ stats(listView.requests.rows).total = 3
  /\ stats(listView.requests.rows).approved = 2
  /\ approvalRate(stats(listView.requests.rows)) = 67

====
